---- MODULE Spec2Model ----
(***************************************************************************)
(* Camera, ray generation and frame loop of the interactive ray tracer.    *)
(*                                                                         *)
(* Numbers.  The program computes with float and double.  The model keeps  *)
(* a real quantity as an integer count of 1/SCALE units and gives it the   *)
(* rounding of a binary floating-point format with Precision significant   *)
(* bits: the result of every sum, difference, product, quotient and square *)
(* root is rounded to the nearest value of that format (ties to even), so  *)
(* a result below 2^Precision units is exact to the unit and a larger one  *)
(* is a multiple of 2, 4, 8, ... units.  Angles are whole degrees, which   *)
(* float holds exactly.                                                    *)
(***************************************************************************)
EXTENDS Integers, Sequences, FiniteSets

(***************************************************************************)
(* Bounds of the model.                                                    *)
(***************************************************************************)
\* smallest step of a quantity: 1/SCALE, a power of two, so that the values a
\* binary format holds exactly (1, 0.5, 0.25, their small multiples and products)
\* are exact in the model too
SCALE == 1024
\* significant bits of a floating-point value
Precision == 10
\* image size handed to the Camera constructor
ImageWidth == 2
ImageHeight == 2
\* |yaw| stays within MaxYaw degrees
MaxYaw == 135
\* every coordinate of the camera position stays within MaxCoord units
MaxCoord == 1500
\* iterations of the main loop that are followed
MaxFrames == 3
\* |yaw| stays within MaxTurn degrees in a sequence of turns
MaxTurn == 540
\* ray directions have coordinates of at most MaxDir half units
MaxDir == 2
\* colour channel values have at most MaxChannel eighths of a unit
MaxChannel == 12

(***************************************************************************)
(* Floating-point arithmetic.                                              *)
(***************************************************************************)
Abs(n) == IF n < 0 THEN -n ELSE n

Min(a, b) == IF a < b THEN a ELSE b

Max(a, b) == IF a > b THEN a ELSE b

\* n / d rounded to the nearest integer, halves away from zero (d # 0)
RoundDiv(n, d) ==
    LET s == IF (n < 0) = (d < 0) THEN 1 ELSE -1
        q == (2 * Abs(n) + Abs(d)) \div (2 * Abs(d))
    IN  s * q

\* magnitudes below TwoP units are held exactly
TwoP == 2 ^ Precision

\* the spacing of the floating-point values around magnitude a >= 0
RECURSIVE Ulp(_)
Ulp(a) == IF a < TwoP THEN 1 ELSE 2 * Ulp(a \div 2)

\* magnitude a rounded to the nearest multiple of u, ties to the even multiple
RoundTo(a, u) ==
    IF 2 * (a % u) > u \/ (2 * (a % u) = u /\ (a \div u) % 2 = 1)
    THEN (a \div u + 1) * u
    ELSE (a \div u) * u

\* n rounded to the nearest floating-point value, ties to even
Fl(n) ==
    IF -TwoP < n /\ n < TwoP THEN n
    ELSE IF n < 0 THEN -RoundTo(-n, Ulp(-n))
    ELSE RoundTo(n, Ulp(n))

FAdd(a, b) == Fl(a + b)

FSub(a, b) == Fl(a - b)

\* product of two quantities
FMul(a, b) == Fl(RoundDiv(a * b, SCALE))

\* quotient of two quantities
FDiv(a, b) == Fl(RoundDiv(a * SCALE, b))

\* a whole number k as a quantity
Real(k) == k * SCALE

\* s or s + 1, whichever has its square not above n
StepSqrt(n, s) == IF (s + 1) * (s + 1) <= n THEN s + 1 ELSE s

RECURSIVE FloorSqrt(_)
FloorSqrt(n) == IF n < 2 THEN n ELSE StepSqrt(n, 2 * FloorSqrt(n \div 4))

\* s or s + 1, whichever is nearer to the square root of n, given s = FloorSqrt(n)
NearerSqrt(n, s) == IF n - s * s > s THEN s + 1 ELSE s

\* square root of a non-negative integer, rounded to the nearest integer
RoundSqrt(n) == NearerSqrt(n, FloorSqrt(n))

\* sinf(radians(d)) for d = 0..90 degrees, in thousandths
SinTable ==
    << 0, 17, 35, 52, 70, 87, 105, 122, 139, 156, 174, 191, 208, 225, 242,
       259, 276, 292, 309, 326, 342, 358, 375, 391, 407, 423, 438, 454, 469, 485,
       500, 515, 530, 545, 559, 574, 588, 602, 616, 629, 643, 656, 669, 682, 695,
       707, 719, 731, 743, 755, 766, 777, 788, 799, 809, 819, 829, 839, 848, 857,
       866, 875, 883, 891, 899, 906, 914, 921, 927, 934, 940, 946, 951, 956, 961,
       966, 970, 974, 978, 982, 985, 988, 990, 993, 995, 996, 998, 999, 999, 1000,
       1000 >>

\* sinf(radians(deg)) for any whole number of degrees
sinf(deg) ==
    LET m == deg % 360
        t == IF m <= 90 THEN SinTable[m + 1]
             ELSE IF m <= 180 THEN SinTable[180 - m + 1]
             ELSE IF m <= 270 THEN -SinTable[m - 180 + 1]
             ELSE -SinTable[360 - m + 1]
    IN  RoundDiv(t * SCALE, 1000)

\* cosf(radians(deg))
cosf(deg) == sinf(deg + 90)

(***************************************************************************)
(* vec3 / point3: a triple <<x, y, z>> of quantities.  A product of two    *)
(* components is held in units of 1/SCALE^2 (dot, length_squared), so that *)
(* a small product keeps its significant bits as a double does.            *)
(***************************************************************************)
vec3(x, y, z) == <<x, y, z>>

VAdd(u, v) == <<FAdd(u[1], v[1]), FAdd(u[2], v[2]), FAdd(u[3], v[3])>>

VSub(u, v) == <<FSub(u[1], v[1]), FSub(u[2], v[2]), FSub(u[3], v[3])>>

VNeg(v) == <<-v[1], -v[2], -v[3]>>

\* t * v for a quantity t
VScale(t, v) == <<FMul(t, v[1]), FMul(t, v[2]), FMul(t, v[3])>>

\* v / t for a quantity t
VOver(v, t) == <<FDiv(v[1], t), FDiv(v[2], t), FDiv(v[3], t)>>

\* in units of 1/SCALE^2
dot(u, v) == Fl(Fl(Fl(u[1] * v[1]) + Fl(u[2] * v[2])) + Fl(u[3] * v[3]))

cross(u, v) ==
    << Fl(RoundDiv(Fl(Fl(u[2] * v[3]) - Fl(u[3] * v[2])), SCALE)),
       Fl(RoundDiv(Fl(Fl(u[3] * v[1]) - Fl(u[1] * v[3])), SCALE)),
       Fl(RoundDiv(Fl(Fl(u[1] * v[2]) - Fl(u[2] * v[1])), SCALE)) >>

\* in units of 1/SCALE^2
length_squared(v) == dot(v, v)

length(v) == Fl(RoundSqrt(length_squared(v)))

unit_vector(v) == VOver(v, length(v))

(***************************************************************************)
(* ray                                                                     *)
(***************************************************************************)
ray(origin, direction) == [orig |-> origin, dir |-> direction]

(***************************************************************************)
(* Camera                                                                  *)
(***************************************************************************)
\* the assignments of update_camera_vectors, in the order the code makes them
Front(c) ==
    [c EXCEPT !.front_ = unit_vector(vec3(FMul(cosf(c.yaw_), cosf(c.pitch_)),
                                          sinf(c.pitch_),
                                          FMul(sinf(c.yaw_), cosf(c.pitch_))))]

\* the operands of the cross product exchanged
Right_Reversed(c) == [c EXCEPT !.camera_right_ = unit_vector(cross(c.world_up_, c.front_))]

Right(c) == [c EXCEPT !.camera_right_ = unit_vector(cross(c.front_, c.world_up_))]

\* the right vector left unnormalised
Right_Raw(c) == [c EXCEPT !.camera_right_ = cross(c.front_, c.world_up_)]

Up(c) == [c EXCEPT !.camera_up_ = unit_vector(cross(c.camera_right_, c.front_))]

\* the aspect ratio taken as an integer quotient
ViewportWidth_Truncated(c) ==
    [c EXCEPT !.viewport_width_ =
        FMul(c.viewport_height_, Real(c.image_width_ \div c.image_height_))]

ViewportWidth(c) ==
    [c EXCEPT !.viewport_width_ =
        FMul(c.viewport_height_, FDiv(Real(c.image_width_), Real(c.image_height_)))]

ViewportEdges(c) ==
    [c EXCEPT !.viewport_u_ = VScale(c.viewport_width_, c.camera_right_),
              !.viewport_v_ = VScale(c.viewport_height_, VNeg(c.camera_up_))]

PixelDeltas(c) ==
    [c EXCEPT !.pixel_delta_u_ = VOver(c.viewport_u_, Real(c.image_width_)),
              !.pixel_delta_v_ = VOver(c.viewport_v_, Real(c.image_height_))]

UpperLeft(c) ==
    [c EXCEPT !.viewport_upper_left_ =
        VSub(VSub(VAdd(c.camera_center_, VScale(c.focal_length_, c.front_)),
                  VOver(c.viewport_u_, Real(2))),
             VOver(c.viewport_v_, Real(2)))]

Pixel00(c) ==
    [c EXCEPT !.pixel00_loc_ =
        VAdd(c.viewport_upper_left_,
             VScale(SCALE \div 2, VAdd(c.pixel_delta_u_, c.pixel_delta_v_)))]

\* the recomputation with the right vector left unnormalised
update_camera_vectors_RawRight(c) ==
    Pixel00(UpperLeft(PixelDeltas(ViewportEdges(ViewportWidth(Up(Right_Raw(Front(c))))))))

update_camera_vectors(c) ==
    Pixel00(UpperLeft(PixelDeltas(ViewportEdges(ViewportWidth(Up(Right(Front(c))))))))

\* the constructor without its final recomputation
Camera_NoUpdate(image_width, image_height, position, focal_length) ==
    [image_width_ |-> image_width,
     image_height_ |-> image_height,
     camera_center_ |-> position,
     focal_length_ |-> focal_length,
     yaw_ |-> -90,
     pitch_ |-> 0,
     front_ |-> vec3(0, 0, -SCALE),
     camera_right_ |-> vec3(0, 0, 0),
     camera_up_ |-> vec3(0, 0, 0),
     world_up_ |-> vec3(0, SCALE, 0),
     viewport_height_ |-> 2 * SCALE,
     viewport_width_ |-> 0,
     viewport_u_ |-> vec3(0, 0, 0),
     viewport_v_ |-> vec3(0, 0, 0),
     pixel_delta_u_ |-> vec3(0, 0, 0),
     pixel_delta_v_ |-> vec3(0, 0, 0),
     viewport_upper_left_ |-> vec3(0, 0, 0),
     pixel00_loc_ |-> vec3(0, 0, 0)]

Camera(image_width, image_height, position, focal_length) ==
    update_camera_vectors(
        [image_width_ |-> image_width,
         image_height_ |-> image_height,
         camera_center_ |-> position,
         focal_length_ |-> focal_length,
         yaw_ |-> -90,
         pitch_ |-> 0,
         front_ |-> vec3(0, 0, -SCALE),
         camera_right_ |-> vec3(0, 0, 0),
         camera_up_ |-> vec3(0, 0, 0),
         world_up_ |-> vec3(0, SCALE, 0),
         viewport_height_ |-> 2 * SCALE,
         viewport_width_ |-> 0,
         viewport_u_ |-> vec3(0, 0, 0),
         viewport_v_ |-> vec3(0, 0, 0),
         pixel_delta_u_ |-> vec3(0, 0, 0),
         pixel_delta_v_ |-> vec3(0, 0, 0),
         viewport_upper_left_ |-> vec3(0, 0, 0),
         pixel00_loc_ |-> vec3(0, 0, 0)])

\* get_ray starting from the viewport corner instead of the first pixel centre
get_ray_Corner(c, pixel_x, pixel_y) ==
    LET pixel_center == VAdd(VAdd(c.viewport_upper_left_, VScale(Real(pixel_x), c.pixel_delta_u_)),
                             VScale(Real(pixel_y), c.pixel_delta_v_))
        ray_direction == VSub(pixel_center, c.camera_center_)
    IN  ray(c.camera_center_, ray_direction)

get_ray(c, pixel_x, pixel_y) ==
    LET pixel_center == VAdd(VAdd(c.pixel00_loc_, VScale(Real(pixel_x), c.pixel_delta_u_)),
                             VScale(Real(pixel_y), c.pixel_delta_v_))
        ray_direction == VSub(pixel_center, c.camera_center_)
    IN  ray(c.camera_center_, ray_direction)

\* move with the recomputation left out
move_NoUpdate(c, offset) ==
    [c EXCEPT !.camera_center_ = VAdd(c.camera_center_, offset)]

\* move recomputing before the position is changed
move_UpdateFirst(c, offset) ==
    [update_camera_vectors(c) EXCEPT !.camera_center_ = VAdd(c.camera_center_, offset)]

move(c, offset) ==
    update_camera_vectors([c EXCEPT !.camera_center_ = VAdd(c.camera_center_, offset)])

\* rotate with the lower clamp left out
rotate_NoFloor(c, delta_yaw, delta_pitch) ==
    LET p  == c.pitch_ + delta_pitch
        p1 == IF p > 89 THEN 89 ELSE p
    IN  update_camera_vectors([c EXCEPT !.yaw_ = c.yaw_ + delta_yaw, !.pitch_ = p1])

\* rotate wrapping the pitch around instead of saturating
rotate_Wrap(c, delta_yaw, delta_pitch) ==
    LET p  == c.pitch_ + delta_pitch
        p1 == ((p + 89) % 179) - 89
    IN  update_camera_vectors([c EXCEPT !.yaw_ = c.yaw_ + delta_yaw, !.pitch_ = p1])

\* rotate bringing the yaw back into [-180, 180)
rotate_YawWrapped(c, delta_yaw, delta_pitch) ==
    LET p  == c.pitch_ + delta_pitch
        p1 == IF p > 89 THEN 89 ELSE p
        p2 == IF p1 < -89 THEN -89 ELSE p1
    IN  update_camera_vectors([c EXCEPT
            !.yaw_ = ((c.yaw_ + delta_yaw + 180) % 360) - 180, !.pitch_ = p2])

rotate(c, delta_yaw, delta_pitch) ==
    LET p  == c.pitch_ + delta_pitch
        p1 == IF p > 89 THEN 89 ELSE p
        p2 == IF p1 < -89 THEN -89 ELSE p1
    IN  update_camera_vectors([c EXCEPT !.yaw_ = c.yaw_ + delta_yaw, !.pitch_ = p2])

\* set_position followed by the recomputation
set_position_Recompute(c, position) ==
    update_camera_vectors([c EXCEPT !.camera_center_ = position])

set_position(c, position) == [c EXCEPT !.camera_center_ = position]

(***************************************************************************)
(* Shading function and channel quantisation (main.cpp).                   *)
(***************************************************************************)
\* a product held in units of 1/SCALE^2, as a quantity
Quantity(x) == Fl(RoundDiv(x, SCALE))

at(r, t) == VAdd(r.orig, VScale(t, r.dir))

\* the farther root in place of the nearer one
NearRoot_Far(a, b, discriminant) ==
    IF discriminant < 0
    THEN -SCALE
    ELSE FDiv(FAdd(-b, Fl(RoundSqrt(discriminant))), Fl(2 * a))

\* the nearer root of a*t^2 + b*t + c, or -1.0 when there is none
NearRoot(a, b, discriminant) ==
    IF discriminant < 0
    THEN -SCALE
    ELSE FDiv(FSub(-b, Fl(RoundSqrt(discriminant))), Fl(2 * a))

Discriminant(a, b, c) == Fl(Fl(b * b) - Fl(4 * Fl(a * c)))

Quadratic(a, b, c) == NearRoot(a, b, Discriminant(a, b, c))

SphereQuadratic(originSphere, direction, radius) ==
    Quadratic(Quantity(length_squared(direction)),
              Fl(2 * Quantity(dot(originSphere, direction))),
              FSub(Quantity(length_squared(originSphere)), FMul(radius, radius)))

hit_sphere(center, radius, r) == SphereQuadratic(VSub(r.orig, center), r.dir, radius)

\* the normal itself as the colour, without the map from [-1,1] to [0,1]
NormalColor_Unmapped(N) == vec3(N[1], N[2], N[3])

\* colour of a surface point with unit normal N
NormalColor(N) ==
    VScale(SCALE \div 2, vec3(FAdd(N[1], SCALE), FAdd(N[2], SCALE), FAdd(N[3], SCALE)))

\* the two ends of the gradient exchanged
Blend_Swapped(a) ==
    VAdd(VScale(a, vec3(SCALE, SCALE, SCALE)),
         VScale(FSub(SCALE, a), vec3(SCALE \div 2, (7 * SCALE) \div 10, SCALE)))

\* the background: white blended with blue by a
Blend(a) ==
    VAdd(VScale(FSub(SCALE, a), vec3(SCALE, SCALE, SCALE)),
         VScale(a, vec3(SCALE \div 2, (7 * SCALE) \div 10, SCALE)))

\* the branch taken on t >= 0 instead of t > 0
Shade_NonStrict(r, t) ==
    IF t >= 0
    THEN NormalColor(unit_vector(VSub(at(r, t), vec3(0, 0, -SCALE))))
    ELSE Blend(FMul(SCALE \div 2, FAdd(unit_vector(r.dir)[2], SCALE)))

\* colour of ray r whose hit_sphere result is t
Shade(r, t) ==
    IF t > 0
    THEN NormalColor(unit_vector(VSub(at(r, t), vec3(0, 0, -SCALE))))
    ELSE Blend(FMul(SCALE \div 2, FAdd(unit_vector(r.dir)[2], SCALE)))

ray_color(r) == Shade(r, hit_sphere(vec3(0, 0, -SCALE), SCALE \div 2, r))

\* std::clamp(v, lo, hi)
clamp(v, lo, hi) == IF v < lo THEN lo ELSE IF hi < v THEN hi ELSE v

\* the conversion to unsigned char without the clamp: 256 wraps to 0
channel_Unclamped(v) == (Fl(256 * v) \div SCALE) % 256

\* static_cast<unsigned char>(256 * std::clamp(v, 0.0, 0.999))
channel(v) == Fl(256 * clamp(v, 0, (999 * SCALE) \div 1000)) \div SCALE

(***************************************************************************)
(* State.                                                                  *)
(***************************************************************************)
VARIABLES
    camera,       \* the Camera object
    lastOp,       \* the last public call made on it, with its arguments
    prev,         \* the Camera object as it was before that call
    lastRay,      \* the ray returned by the last get_ray
    constructed,  \* the Camera object as the constructor left it
    trip,         \* progress of a move(v); move(-v) pair made right after construction
    yawSum,       \* sum of the delta_yaw of the rotate calls made, in degrees
    pc,                 \* position of main() in its code
    ret,                \* where render_scene returns to
    i,                  \* render_scene: column of the next pixel
    j,                  \* render_scene: row of the next pixel
    framebuffer,        \* byte index -> byte
    texture,            \* the bytes last uploaded to the OpenGL texture
    rightMousePressed,
    lastMouseX,
    lastMouseY,
    sensitivity,
    invertY,
    camera_speed,
    camera_updated,
    reload,
    cursor,             \* GLFW cursor mode
    frames,             \* iterations of the main loop completed
    frame,              \* what the current iteration has done so far
    shade               \* a ray or a colour put through the shading functions

callVars == <<lastOp, prev, lastRay, constructed, trip, yawSum>>

mainVars == <<pc, ret, i, j, framebuffer, texture, rightMousePressed, lastMouseX,
              lastMouseY, sensitivity, invertY, camera_speed, camera_updated,
              reload, cursor, frames, frame>>

vars == <<camera, callVars, mainVars, shade>>

\* inputs of the calls
Positions == {vec3(0, 0, 0), vec3(SCALE \div 4 + 1, 0, -(SCALE \div 2))}

Offsets == {vec3(SCALE, -(SCALE \div 4), SCALE \div 4),
            vec3(-SCALE, SCALE \div 4, -(SCALE \div 4))}

\* <<delta_yaw, delta_pitch>> in degrees
Deltas == {<<0, 200>>, <<0, -200>>, <<-45, 60>>}

\* pixel coordinates, one step outside the image included
PixelXs == -1 .. ImageWidth

PixelYs == -1 .. ImageHeight

\* the pixels get_ray is called for
Pixels == {<<0, 0>>, <<ImageWidth, -1>>, <<-1, ImageHeight>>}

FocalLength == SCALE

\* <<image_width, image_height>> of the cameras constructed: whole and fractional
\* aspect ratios
ImageSizes == {<<ImageWidth, ImageHeight>>, <<ImageWidth + 1, ImageHeight>>,
               <<ImageWidth, ImageHeight - 1>>}

Op(name, v, a, b) == [op |-> name, v |-> v, a |-> a, b |-> b]

NoRay == ray(vec3(0, 0, 0), vec3(0, 0, 0))

InBox(p) == \A n \in 1..3 : Abs(p[n]) <= MaxCoord

\* what one iteration of the main loop has done: the calls it made on the
\* camera, whether Reload was clicked, the pose it started with, and the
\* sweeps of render_scene it started and completed with the pixels they wrote
Pose(c) == <<c.camera_center_, c.yaw_, c.pitch_>>

NoFrame(c) == [rotate |-> FALSE, move |-> FALSE, click |-> FALSE, pose0 |-> Pose(c),
               started |-> 0, completed |-> 0, written |-> 0, cells |-> <<>>]

FramebufferSize == ImageWidth * ImageHeight * 3

\* nothing is being shaded
NoShade == [step |-> "none", ray |-> NoRay, t |-> 0, color |-> vec3(0, 0, 0),
            bytes |-> <<0, 0, 0>>]

\* the variables of main() as its declarations initialise them
MainDeclared ==
    /\ ret = "frame"
    /\ i = 0
    /\ j = 0
    /\ framebuffer = [k \in 0 .. FramebufferSize - 1 |-> 0]
    /\ texture = <<>>
    /\ rightMousePressed = FALSE
    /\ lastMouseX = 0
    /\ lastMouseY = 0
    /\ sensitivity = SCALE \div 5
    /\ invertY = TRUE
    /\ camera_speed = SCALE
    /\ camera_updated = FALSE
    /\ reload = FALSE
    /\ cursor = "normal"
    /\ frames = 0

\* main() is not running: the Camera is driven through its interface
MainIdle ==
    /\ pc = "none"
    /\ MainDeclared
    /\ frame = NoFrame(camera)

Init ==
    /\ \E p \in Positions, size \in ImageSizes :
           camera = Camera(size[1], size[2], p, FocalLength)
    /\ lastOp = Op("Camera", camera.camera_center_, 0, 0)
    /\ prev = camera
    /\ lastRay = NoRay
    /\ constructed = camera
    /\ trip = "fresh"
    /\ yawSum = 0
    /\ MainIdle
    /\ shade = NoShade

Move ==
    \E offset \in Offsets :
        /\ InBox(VAdd(camera.camera_center_, offset))
        /\ camera' = move(camera, offset)
        /\ lastOp' = Op("move", offset, 0, 0)
        /\ yawSum' = yawSum
        /\ prev' = camera
        /\ trip' = IF trip = "fresh" THEN "out"
                   ELSE IF trip = "out" /\ offset = VNeg(lastOp.v) THEN "back"
                   ELSE "other"
        /\ lastRay' = NoRay
        /\ UNCHANGED <<constructed, mainVars, shade>>

Rotate ==
    \E d \in Deltas :
        /\ Abs(camera.yaw_ + d[1]) <= MaxYaw
        /\ camera' = rotate(camera, d[1], d[2])
        /\ lastOp' = Op("rotate", vec3(0, 0, 0), d[1], d[2])
        /\ yawSum' = yawSum + d[1]
        /\ prev' = camera
        /\ trip' = "other"
        /\ lastRay' = NoRay
        /\ UNCHANGED <<constructed, mainVars, shade>>

SetPosition ==
    \E position \in Positions :
        /\ camera' = set_position(camera, position)
        /\ lastOp' = Op("set_position", position, 0, 0)
        /\ yawSum' = yawSum
        /\ prev' = camera
        /\ trip' = "other"
        /\ lastRay' = NoRay
        /\ UNCHANGED <<constructed, mainVars, shade>>

GetRay ==
    \E px \in Pixels :
        /\ lastRay' = get_ray(camera, px[1], px[2])
        /\ lastOp' = Op("get_ray", vec3(0, 0, 0), px[1], px[2])
        /\ yawSum' = yawSum
        /\ prev' = camera
        /\ trip' = "other"
        /\ UNCHANGED <<camera, constructed, mainVars, shade>>

Next == Move \/ Rotate \/ SetPosition \/ GetRay

Spec == Init /\ [][Next]_vars

(***************************************************************************)
(* Sequences of rotate calls that turn the camera through several full     *)
(* circles.                                                                *)
(***************************************************************************)
\* <<delta_yaw, delta_pitch>> in degrees
TurnDeltas == {<<135, 0>>, <<-135, 100>>, <<90, 0>>, <<-360, -100>>}

Turn ==
    \E d \in TurnDeltas :
        /\ Abs(camera.yaw_ + d[1]) <= MaxTurn
        /\ camera' = rotate(camera, d[1], d[2])
        /\ lastOp' = Op("rotate", vec3(0, 0, 0), d[1], d[2])
        /\ yawSum' = yawSum + d[1]
        /\ prev' = camera
        /\ trip' = "other"
        /\ lastRay' = NoRay
        /\ UNCHANGED <<constructed, mainVars, shade>>

TurnNext == Turn

TurnSpec == Init /\ [][TurnNext]_vars

(***************************************************************************)
(* main(): the initial render and the frame loop.                          *)
(***************************************************************************)
\* inputs of one frame
Cursors == {<<0, 0>>, <<-225, 300>>}

KeySets == {{}, {"W"}, {"A", "D"}}

DeltaTimes == {0, SCALE \div 2}

Sensitivities == {SCALE \div 5}

CameraSpeeds == {SCALE}

\* an angle held as a quantity, in degrees
Degrees(q) == RoundDiv(q, SCALE)

MainInit ==
    /\ camera = Camera(ImageWidth, ImageHeight, vec3(0, 0, 0), FocalLength)
    /\ lastOp = Op("Camera", camera.camera_center_, 0, 0)
    /\ prev = camera
    /\ lastRay = NoRay
    /\ constructed = camera
    /\ trip = "fresh"
    /\ yawSum = 0
    /\ MainDeclared
    /\ pc = "render_scene"
    /\ frame = [NoFrame(camera) EXCEPT !.started = 1]
    /\ shade = NoShade

\* the pixels laid out column after column
PixelIndex_ColumnMajor(pixel_i, pixel_j) == (pixel_i * ImageHeight + pixel_j) * 3

\* int idx = (j * image_width + i) * 3
PixelIndex(pixel_i, pixel_j) == (pixel_j * ImageWidth + pixel_i) * 3

\* the three bytes of a pixel written at byte index idx
WritePixel(fb, idx, pixel_color) ==
    [fb EXCEPT ![idx] = channel(pixel_color[1]),
               ![idx + 1] = channel(pixel_color[2]),
               ![idx + 2] = channel(pixel_color[3])]

\* an iteration of the inner loop in which input is handled: the camera is
\* turned before the pixel is computed
RenderPixel_Interrupted ==
    /\ pc = "render_scene"
    /\ j < ImageHeight
    /\ camera' = IF i = 1 THEN rotate(camera, 1, 0) ELSE camera
    /\ framebuffer' = WritePixel(framebuffer, PixelIndex(i, j),
                                 ray_color(get_ray(camera', i, j)))
    /\ i' = IF i + 1 < ImageWidth THEN i + 1 ELSE 0
    /\ j' = IF i + 1 < ImageWidth THEN j ELSE j + 1
    /\ frame' = [frame EXCEPT !.written = @ + 1,
                              !.cells = Append(@, PixelIndex(i, j))]
    /\ UNCHANGED <<callVars, shade, pc, ret, texture, rightMousePressed, lastMouseX,
                   lastMouseY, sensitivity, invertY, camera_speed, camera_updated,
                   reload, cursor, frames>>

\* one iteration of the inner loop of render_scene
RenderPixel ==
    /\ pc = "render_scene"
    /\ j < ImageHeight
    /\ framebuffer' = WritePixel(framebuffer, PixelIndex(i, j),
                                 ray_color(get_ray(camera, i, j)))
    /\ i' = IF i + 1 < ImageWidth THEN i + 1 ELSE 0
    /\ j' = IF i + 1 < ImageWidth THEN j ELSE j + 1
    /\ frame' = [frame EXCEPT !.written = @ + 1,
                              !.cells = Append(@, PixelIndex(i, j))]
    /\ UNCHANGED <<camera, callVars, shade, pc, ret, texture, rightMousePressed, lastMouseX,
                   lastMouseY, sensitivity, invertY, camera_speed, camera_updated,
                   reload, cursor, frames>>

\* render_scene returns and its caller uploads the framebuffer to the texture
RenderReturn ==
    /\ pc = "render_scene"
    /\ j = ImageHeight
    /\ texture' = framebuffer
    /\ pc' = ret
    /\ frame' = [frame EXCEPT !.completed = @ + 1]
    /\ UNCHANGED <<camera, callVars, shade, ret, i, j, framebuffer, rightMousePressed,
                   lastMouseX, lastMouseY, sensitivity, invertY, camera_speed,
                   camera_updated, reload, cursor, frames>>

\* the mouse look controls turning the camera already on the frame of the press
MouseLook_RotateOnPress ==
    /\ pc = "frame"
    /\ frames < MaxFrames
    /\ \E pressed \in BOOLEAN, cur \in Cursors :
        LET mouseX == cur[1]
            mouseY == cur[2]
            offsetX == mouseX - lastMouseX
            offsetY == mouseY - lastMouseY
            delta_yaw == Degrees(FMul(Real(offsetX), sensitivity))
            delta_pitch == Degrees(FMul(Real(IF invertY THEN offsetY ELSE -offsetY),
                                        sensitivity))
        IN  IF pressed
            THEN IF ~rightMousePressed
                 THEN /\ Abs(camera.yaw_ + delta_yaw) <= MaxYaw
                      /\ rightMousePressed' = TRUE
                      /\ lastMouseX' = mouseX
                      /\ lastMouseY' = mouseY
                      /\ cursor' = "disabled"
                      /\ camera' = rotate(camera, delta_yaw, delta_pitch)
                      /\ camera_updated' = TRUE
                      /\ frame' = [NoFrame(camera) EXCEPT !.rotate = TRUE]
                 ELSE /\ Abs(camera.yaw_ + delta_yaw) <= MaxYaw
                      /\ lastMouseX' = mouseX
                      /\ lastMouseY' = mouseY
                      /\ camera' = rotate(camera, delta_yaw, delta_pitch)
                      /\ camera_updated' = TRUE
                      /\ frame' = [NoFrame(camera) EXCEPT !.rotate = TRUE]
                      /\ UNCHANGED <<rightMousePressed, cursor>>
            ELSE /\ cursor' = IF rightMousePressed THEN "normal" ELSE cursor
                 /\ rightMousePressed' = FALSE
                 /\ camera_updated' = FALSE
                 /\ frame' = NoFrame(camera)
                 /\ UNCHANGED <<camera, lastMouseX, lastMouseY>>
    /\ pc' = "keyboard"
    /\ UNCHANGED <<callVars, shade, ret, i, j, framebuffer, texture, sensitivity, invertY,
                   camera_speed, reload, frames>>

\* top of the loop body and the mouse look controls
MouseLook ==
    /\ pc = "frame"
    /\ frames < MaxFrames
    /\ \E pressed \in BOOLEAN, cur \in Cursors :
        LET mouseX == cur[1]
            mouseY == cur[2]
            offsetX == mouseX - lastMouseX
            offsetY == mouseY - lastMouseY
            delta_yaw == Degrees(FMul(Real(offsetX), sensitivity))
            delta_pitch == Degrees(FMul(Real(IF invertY THEN offsetY ELSE -offsetY),
                                        sensitivity))
        IN  IF pressed
            THEN IF ~rightMousePressed
                 THEN /\ rightMousePressed' = TRUE
                      /\ lastMouseX' = mouseX
                      /\ lastMouseY' = mouseY
                      /\ cursor' = "disabled"
                      /\ camera_updated' = FALSE
                      /\ frame' = NoFrame(camera)
                      /\ UNCHANGED camera
                 ELSE /\ Abs(camera.yaw_ + delta_yaw) <= MaxYaw
                      /\ lastMouseX' = mouseX
                      /\ lastMouseY' = mouseY
                      /\ camera' = rotate(camera, delta_yaw, delta_pitch)
                      /\ camera_updated' = TRUE
                      /\ frame' = [NoFrame(camera) EXCEPT !.rotate = TRUE]
                      /\ UNCHANGED <<rightMousePressed, cursor>>
            ELSE /\ cursor' = IF rightMousePressed THEN "normal" ELSE cursor
                 /\ rightMousePressed' = FALSE
                 /\ camera_updated' = FALSE
                 /\ frame' = NoFrame(camera)
                 /\ UNCHANGED <<camera, lastMouseX, lastMouseY>>
    /\ pc' = "keyboard"
    /\ UNCHANGED <<callVars, shade, ret, i, j, framebuffer, texture, sensitivity, invertY,
                   camera_speed, reload, frames>>

\* move_offset += d, or -= d, when key is held
AddIf(keys, key, offset, d) == IF key \in keys THEN VAdd(offset, d) ELSE offset

SubIf(keys, key, offset, d) == IF key \in keys THEN VSub(offset, d) ELSE offset

\* v * camera_speed * static_cast<float>(delta_time)
Step(v, speed, delta_time) == VScale(delta_time, VScale(speed, v))

\* the offset the keyboard movement controls build from the held keys
move_offset(c, keys, speed, delta_time) ==
    AddIf(keys, "LEFT_CONTROL",
      SubIf(keys, "SPACE",
        SubIf(keys, "S",
          AddIf(keys, "W",
            AddIf(keys, "D",
              SubIf(keys, "A", vec3(0, 0, 0), Step(c.camera_right_, speed, delta_time)),
              Step(c.camera_right_, speed, delta_time)),
            Step(c.front_, speed, delta_time)),
          Step(c.front_, speed, delta_time)),
        Step(c.camera_up_, speed, delta_time)),
      Step(c.camera_up_, speed, delta_time))

\* the camera is moved without camera_updated being set
MoveBy_Unflagged(offset) ==
    IF length_squared(offset) > 0
    THEN /\ InBox(VAdd(camera.camera_center_, offset))
         /\ camera' = move(camera, offset)
         /\ camera_updated' = camera_updated
         /\ frame' = [frame EXCEPT !.move = TRUE]
    ELSE UNCHANGED <<camera, camera_updated, frame>>

\* "if (move_offset.length_squared() > 0)": the camera is moved by offset
MoveBy(offset) ==
    IF length_squared(offset) > 0
    THEN /\ InBox(VAdd(camera.camera_center_, offset))
         /\ camera' = move(camera, offset)
         /\ camera_updated' = TRUE
         /\ frame' = [frame EXCEPT !.move = TRUE]
    ELSE UNCHANGED <<camera, camera_updated, frame>>

\* the keyboard movement controls
Keyboard ==
    /\ pc = "keyboard"
    /\ \E keys \in KeySets, delta_time \in DeltaTimes :
        MoveBy(move_offset(camera, keys, camera_speed, delta_time))
    /\ pc' = "rerender"
    /\ UNCHANGED <<callVars, shade, ret, i, j, framebuffer, texture, rightMousePressed,
                   lastMouseX, lastMouseY, sensitivity, invertY, camera_speed,
                   reload, cursor, frames>>

\* the re-render that never happens
ReRender_Never ==
    /\ pc = "rerender"
    /\ pc' = "imgui"
    /\ UNCHANGED <<camera, callVars, shade, ret, i, j, framebuffer, texture, rightMousePressed,
                   lastMouseX, lastMouseY, sensitivity, invertY, camera_speed,
                   camera_updated, reload, cursor, frames, frame>>

\* "Re-render if camera changed"
ReRender ==
    /\ pc = "rerender"
    /\ IF camera_updated
       THEN /\ pc' = "render_scene"
            /\ ret' = "imgui"
            /\ i' = 0
            /\ j' = 0
            /\ frame' = [frame EXCEPT !.started = @ + 1, !.cells = <<>>]
       ELSE /\ pc' = "imgui"
            /\ UNCHANGED <<ret, i, j, frame>>
    /\ UNCHANGED <<camera, callVars, shade, framebuffer, texture, rightMousePressed,
                   lastMouseX, lastMouseY, sensitivity, invertY, camera_speed,
                   camera_updated, reload, cursor, frames>>

\* the ImGui window: the Reload button, the sliders and the checkbox
ImGui ==
    /\ pc = "imgui"
    /\ \E click \in BOOLEAN, checked \in BOOLEAN,
          speed \in CameraSpeeds, sens \in Sensitivities :
        /\ reload' = (reload \/ click)
        /\ camera_speed' = speed
        /\ sensitivity' = sens
        /\ invertY' = checked
        /\ frame' = [frame EXCEPT !.click = click]
    /\ pc' = "reload"
    /\ UNCHANGED <<camera, callVars, shade, ret, i, j, framebuffer, texture, rightMousePressed,
                   lastMouseX, lastMouseY, camera_updated, cursor, frames>>

\* "If reload requested, recalculate image and reload texture"
Reload ==
    /\ pc = "reload"
    /\ IF reload
       THEN /\ pc' = "render_scene"
            /\ ret' = "reloaded"
            /\ i' = 0
            /\ j' = 0
            /\ frame' = [frame EXCEPT !.started = @ + 1, !.cells = <<>>]
       ELSE /\ pc' = "swap"
            /\ UNCHANGED <<ret, i, j, frame>>
    /\ UNCHANGED <<camera, callVars, shade, framebuffer, texture, rightMousePressed,
                   lastMouseX, lastMouseY, sensitivity, invertY, camera_speed,
                   camera_updated, reload, cursor, frames>>

\* the reload request is cleared
Reloaded ==
    /\ pc = "reloaded"
    /\ reload' = FALSE
    /\ pc' = "swap"
    /\ UNCHANGED <<camera, callVars, shade, ret, i, j, framebuffer, texture, rightMousePressed,
                   lastMouseX, lastMouseY, sensitivity, invertY, camera_speed,
                   camera_updated, cursor, frames, frame>>

\* the textured quad is drawn and the buffers are swapped
Swap ==
    /\ pc = "swap"
    /\ pc' = "frame"
    /\ frames' = frames + 1
    /\ frame' = NoFrame(camera)
    /\ UNCHANGED <<camera, callVars, shade, ret, i, j, framebuffer, texture, rightMousePressed,
                   lastMouseX, lastMouseY, sensitivity, invertY, camera_speed,
                   camera_updated, reload, cursor>>

\* glfwWindowShouldClose: the loop is left
Close ==
    /\ pc = "frame"
    /\ pc' = "closed"
    /\ UNCHANGED <<camera, callVars, shade, ret, i, j, framebuffer, texture, rightMousePressed,
                   lastMouseX, lastMouseY, sensitivity, invertY, camera_speed,
                   camera_updated, reload, cursor, frames, frame>>

MainNext ==
    \/ RenderPixel
    \/ RenderReturn
    \/ MouseLook
    \/ Keyboard
    \/ ReRender
    \/ ImGui
    \/ Reload
    \/ Reloaded
    \/ Swap
    \/ Close

MainSpec == MainInit /\ [][MainNext]_vars

\* main() runs on one thread and the loops of render_scene make no blocking
\* call: an iteration that can be taken is taken, and the function returns.
\* RenderPixel changes i or j whenever its guard holds, so RenderPixelEnabled
\* is ENABLED <<RenderPixel>>_vars and RenderPixelFair is WF_vars(RenderPixel)
RenderPixelEnabled == pc = "render_scene" /\ j < ImageHeight

RenderPixelFair == []<>(~RenderPixelEnabled) \/ []<><<RenderPixel>>_vars

MainFairSpec ==
    MainInit /\ [][MainNext]_vars /\ RenderPixelFair /\ WF_vars(RenderReturn)

(***************************************************************************)
(* The shading functions applied to single rays and colours.               *)
(***************************************************************************)
\* the sphere of the scene
SphereCenter == vec3(0, 0, -SCALE)

SphereRadius == SCALE \div 2

HalfUnits == {k * (SCALE \div 2) : k \in -MaxDir .. MaxDir}

\* every non-zero direction on the grid of half units
Directions == {vec3(x, y, z) : x \in HalfUnits, y \in HalfUnits, z \in HalfUnits}
                  \ {vec3(0, 0, 0)}

\* ray origins: in front of the sphere, at its centre, inside it off-centre,
\* on its surface, behind it and beside it
Origins ==
    {vec3(0, 0, 0),
     SphereCenter,
     vec3(0, SCALE \div 4, -SCALE),
     vec3(SCALE \div 4, 0, -(3 * SCALE) \div 4),
     vec3(0, 0, -(SCALE \div 2)),
     vec3(0, 0, -2 * SCALE),
     vec3(SCALE, 0, -SCALE)}

Rays == {ray(o, d) : o \in Origins, d \in Directions}

\* colour channel values below 0, inside [0, 1], at 1 and above it
ChannelValues ==
    {k * (SCALE \div 8) : k \in -MaxChannel .. MaxChannel}
        \cup {-1, 1, SCALE - 1, SCALE + 1, (999 * SCALE) \div 1000}

ShadeInit ==
    /\ camera = Camera(ImageWidth, ImageHeight, vec3(0, 0, 0), FocalLength)
    /\ lastOp = Op("Camera", camera.camera_center_, 0, 0)
    /\ prev = camera
    /\ lastRay = NoRay
    /\ constructed = camera
    /\ trip = "fresh"
    /\ yawSum = 0
    /\ MainIdle
    /\ \/ \E r \in Rays : shade = [NoShade EXCEPT !.step = "ray", !.ray = r]
       \/ \E x \in ChannelValues, y \in {0, SCALE \div 2}, z \in {SCALE} :
              shade = [NoShade EXCEPT !.step = "color", !.color = vec3(x, y, z)]

\* hit_sphere on the ray, against the sphere of the scene
HitSphere ==
    /\ shade.step = "ray"
    /\ shade' = [shade EXCEPT !.t = hit_sphere(SphereCenter, SphereRadius, shade.ray),
                              !.step = "hit_sphere"]
    /\ UNCHANGED <<camera, callVars, mainVars>>

\* ray_color on the ray
RayColor ==
    /\ shade.step = "hit_sphere"
    /\ shade' = [shade EXCEPT !.color = ray_color(shade.ray), !.step = "color"]
    /\ UNCHANGED <<camera, callVars, mainVars>>

\* the three channels of the colour stored as bytes
Quantize ==
    /\ shade.step = "color"
    /\ shade' = [shade EXCEPT !.bytes = <<channel(shade.color[1]),
                                          channel(shade.color[2]),
                                          channel(shade.color[3])>>,
                              !.step = "bytes"]
    /\ UNCHANGED <<camera, callVars, mainVars>>

ShadeNext == HitSphere \/ RayColor \/ Quantize

ShadeSpec == ShadeInit /\ [][ShadeNext]_vars

(***************************************************************************)
(* Properties of the Camera.                                               *)
(***************************************************************************)
\* exact inner product of two stored vectors, in units of 1/SCALE^2
Inner(u, v) == u[1] * v[1] + u[2] * v[2] + u[3] * v[3]

\* numeric tolerance: 1/100 of a unit length
Tol == SCALE \div 100

\* u and v agree in every coordinate within t
Near(u, v, t) == \A n \in 1..3 : Abs(u[n] - v[n]) <= t

\* every derived field of c is what the recomputation algorithm gives for the
\* position, yaw and pitch of c
Consistent(c) ==
    /\ c.front_ = unit_vector(<<FMul(cosf(c.yaw_), cosf(c.pitch_)),
                                sinf(c.pitch_),
                                FMul(sinf(c.yaw_), cosf(c.pitch_))>>)
    /\ c.camera_right_ = unit_vector(cross(c.front_, c.world_up_))
    /\ c.camera_up_ = unit_vector(cross(c.camera_right_, c.front_))
    /\ c.viewport_width_ =
           FMul(c.viewport_height_, FDiv(Real(c.image_width_), Real(c.image_height_)))
    /\ c.viewport_u_ = VScale(c.viewport_width_, c.camera_right_)
    /\ c.viewport_v_ = VScale(c.viewport_height_, VNeg(c.camera_up_))
    /\ c.pixel_delta_u_ = VOver(c.viewport_u_, Real(c.image_width_))
    /\ c.pixel_delta_v_ = VOver(c.viewport_v_, Real(c.image_height_))
    /\ c.viewport_upper_left_ =
           VSub(VSub(VAdd(c.camera_center_, VScale(c.focal_length_, c.front_)),
                     VOver(c.viewport_u_, Real(2))),
                VOver(c.viewport_v_, Real(2)))
    /\ c.pixel00_loc_ =
           VAdd(c.viewport_upper_left_,
                VScale(SCALE \div 2, VAdd(c.pixel_delta_u_, c.pixel_delta_v_)))

\* C1: in every reachable state the stored pitch lies in [-89, 89]
C1_PitchInRange == -89 <= camera.pitch_ /\ camera.pitch_ <= 89

\* a rotate from a pose already tilted has hit the lower clamp
C1_Witness ==
    /\ lastOp.op = "rotate"
    /\ prev.pitch_ # 0
    /\ prev.pitch_ + lastOp.b < -89
    /\ camera.pitch_ = -89

\* C2: rotate saturates the pitch: after rotate(_, d) from pitch p the pitch is
\* min(89, max(-89, p + d)); from a fresh camera rotate(0, 200) gives 89 and
\* rotate(0, -200) gives -89
C2_RotateSaturates ==
    lastOp.op = "rotate" =>
        /\ camera.pitch_ = Min(89, Max(-89, prev.pitch_ + lastOp.b))
        /\ (prev = constructed /\ lastOp.a = 0 /\ lastOp.b = 200) => camera.pitch_ = 89
        /\ (prev = constructed /\ lastOp.a = 0 /\ lastOp.b = -200) => camera.pitch_ = -89

\* rotate(0, 200) on the freshly constructed camera
C2_Witness ==
    /\ lastOp.op = "rotate"
    /\ trip = "other"
    /\ prev = constructed
    /\ lastOp.a = 0
    /\ lastOp.b = 200
    /\ camera.pitch_ = 89

\* C3: between public calls pixel00_location is consistent with the current pose:
\* pixel00_location = position + forward*focal_length - viewport_u/2 - viewport_v/2
\*                    + 0.5*(pixel_delta_u + pixel_delta_v)
C3_Pixel00Consistent ==
    camera.pixel00_loc_ =
        VAdd(VSub(VSub(VAdd(camera.camera_center_,
                            VScale(camera.focal_length_, camera.front_)),
                       VOver(camera.viewport_u_, Real(2))),
                  VOver(camera.viewport_v_, Real(2))),
             VScale(SCALE \div 2, VAdd(camera.pixel_delta_u_, camera.pixel_delta_v_)))

\* C4: right after move or rotate returns, whatever came before, every derived
\* field equals the recomputation applied to the current position, yaw and pitch
C4_MutatorsRecompute ==
    lastOp.op \in {"move", "rotate"} => Consistent(camera)

\* a move made while the derived state was stale after set_position
C4_Witness ==
    /\ lastOp.op = "move"
    /\ ~Consistent(prev)
    /\ Consistent(camera)

Plus(u, v) == <<u[1] + v[1], u[2] + v[2], u[3] + v[3]>>

Minus(u, v) == <<u[1] - v[1], u[2] - v[2], u[3] - v[3]>>

Times(k, v) == <<k * v[1], k * v[2], k * v[3]>>

MaxAbs(v) == Max(Abs(v[1]), Max(Abs(v[2]), Abs(v[3])))

\* the fields that depend on yaw and pitch alone
OrientationFields ==
    {"front_", "camera_right_", "camera_up_", "viewport_width_",
     "viewport_u_", "viewport_v_", "pixel_delta_u_", "pixel_delta_v_"}

\* C6 as claimed: after Camera(.., P, ..), move(v), move(-v) the position is P and
\* every derived field has the value it had right after construction
C6_RoundTripExact == trip = "back" => camera = constructed

\* C6 as amended: the position is back at P within one unit in the last place of
\* the larger of |P| and |P + v| (exactly when P + v is representable, and then
\* the whole state is the constructed one); forward, right, up and the pixel
\* deltas are exactly restored; viewport_upper_left and pixel00_location are
\* restored within three units in the last place
C6_RoundTripWithinTolerance ==
    trip = "back" =>
        LET P   == constructed.camera_center_
            mid == prev.camera_center_
            m   == MaxAbs(P) + MaxAbs(lastOp.v)
        IN  /\ \A n \in 1..3 :
                   Abs(camera.camera_center_[n] - P[n])
                       <= Max(Ulp(Abs(P[n])), Ulp(Abs(mid[n])))
            /\ mid = Minus(P, lastOp.v) => camera = constructed
            /\ \A g \in OrientationFields : camera[g] = constructed[g]
            /\ Near(camera.viewport_upper_left_, constructed.viewport_upper_left_,
                    3 * Ulp(m + MaxAbs(constructed.viewport_upper_left_)))
            /\ Near(camera.pixel00_loc_, constructed.pixel00_loc_,
                    3 * Ulp(m + MaxAbs(constructed.pixel00_loc_)))

\* a round trip whose intermediate position was rounded
C6_Witness ==
    /\ trip = "back"
    /\ lastOp.op = "move"
    /\ camera.camera_center_ # constructed.camera_center_
    /\ Near(camera.camera_center_, constructed.camera_center_, 1)

\* the largest magnitude met while get_ray(c, x, y) is computed
Mag(c, x, y) ==
    MaxAbs(c.pixel00_loc_) + Abs(x) * MaxAbs(c.pixel_delta_u_)
        + Abs(y) * MaxAbs(c.pixel_delta_v_) + MaxAbs(c.camera_center_)

\* the point of the pixel grid with coordinates x, y, computed exactly
GridPoint(c, x, y) ==
    Plus(Plus(c.pixel00_loc_, Times(x, c.pixel_delta_u_)), Times(y, c.pixel_delta_v_))

\* get_ray changes no camera state and returns the position as origin
GetRayPure ==
    lastOp.op = "get_ray" =>
        /\ camera = prev
        /\ lastRay = get_ray(camera, lastOp.a, lastOp.b)
        /\ lastRay.orig = camera.camera_center_

\* C9 as claimed: on a consistent camera, for pixel coordinates inside or outside
\* the image, origin = position, origin + direction = pixel00 + x*du + y*dv,
\* neighbouring directions differ by du and dv, the component of the direction
\* along forward is focal_length, and get_ray changes no state
C9_GetRayExact ==
    /\ GetRayPure
    /\ Consistent(camera) =>
           \A x \in PixelXs, y \in PixelYs :
               LET r == get_ray(camera, x, y)
               IN  /\ r.orig = camera.camera_center_
                   /\ Plus(r.orig, r.dir) = GridPoint(camera, x, y)
                   /\ Minus(get_ray(camera, x + 1, y).dir, r.dir) = camera.pixel_delta_u_
                   /\ Minus(get_ray(camera, x, y + 1).dir, r.dir) = camera.pixel_delta_v_
                   /\ Inner(r.dir, camera.front_) = camera.focal_length_ * SCALE

\* C9 as amended: origin = position exactly and no state changes; the endpoint is
\* the grid point within 3 units in the last place, neighbouring directions
\* differ by du and dv within 5 units in the last place, and the component along
\* forward is focal_length within a tolerance that grows with |x| + |y|
C9_GetRayGrid ==
    /\ GetRayPure
    /\ Consistent(camera) =>
           \A x \in PixelXs, y \in PixelYs :
               LET r == get_ray(camera, x, y)
               IN  /\ r.orig = camera.camera_center_
                   /\ Near(Plus(r.orig, r.dir), GridPoint(camera, x, y),
                           3 * Ulp(Mag(camera, x, y)))
                   /\ Near(Minus(get_ray(camera, x + 1, y).dir, r.dir),
                           camera.pixel_delta_u_, 5 * Ulp(Mag(camera, x + 1, y)))
                   /\ Near(Minus(get_ray(camera, x, y + 1).dir, r.dir),
                           camera.pixel_delta_v_, 5 * Ulp(Mag(camera, x, y + 1)))
                   /\ Abs(Inner(r.dir, camera.front_) - camera.focal_length_ * SCALE)
                          <= Tol * SCALE * (1 + Abs(x) + Abs(y))

\* get_ray called on a consistent, tilted camera for a pixel outside the image
C9_Witness ==
    /\ lastOp.op = "get_ray"
    /\ lastOp.a = ImageWidth
    /\ lastOp.b = -1
    /\ Consistent(camera)
    /\ camera.pitch_ = 60
    /\ lastRay.orig = camera.camera_center_
    /\ Plus(lastRay.orig, lastRay.dir) # GridPoint(camera, lastOp.a, lastOp.b)

\* C10 as claimed: after move or rotate, forward, right and up have pairwise inner
\* products 0 and length 1
C10_OrthonormalExact ==
    lastOp.op \in {"move", "rotate"} =>
        /\ Inner(camera.front_, camera.camera_right_) = 0
        /\ Inner(camera.front_, camera.camera_up_) = 0
        /\ Inner(camera.camera_right_, camera.camera_up_) = 0
        /\ Inner(camera.front_, camera.front_) = SCALE * SCALE
        /\ Inner(camera.camera_right_, camera.camera_right_) = SCALE * SCALE
        /\ Inner(camera.camera_up_, camera.camera_up_) = SCALE * SCALE

\* C10 as amended: the inner products are 0 and the lengths are 1 within the
\* numeric tolerance
C10_OrthonormalWithinTolerance ==
    lastOp.op \in {"move", "rotate"} =>
        /\ Abs(Inner(camera.front_, camera.camera_right_)) <= Tol * SCALE
        /\ Abs(Inner(camera.front_, camera.camera_up_)) <= Tol * SCALE
        /\ Abs(Inner(camera.camera_right_, camera.camera_up_)) <= Tol * SCALE
        /\ Abs(RoundSqrt(Inner(camera.front_, camera.front_)) - SCALE) <= Tol
        /\ Abs(RoundSqrt(Inner(camera.camera_right_, camera.camera_right_)) - SCALE) <= Tol
        /\ Abs(RoundSqrt(Inner(camera.camera_up_, camera.camera_up_)) - SCALE) <= Tol

\* a rotate into the upper clamp, looking along a diagonal, where rounding shows
C10_Witness ==
    /\ lastOp.op = "rotate"
    /\ camera.pitch_ = 89
    /\ camera.yaw_ = -135
    /\ Inner(camera.camera_right_, camera.camera_right_) # SCALE * SCALE
    /\ Abs(RoundSqrt(Inner(camera.camera_right_, camera.camera_right_)) - SCALE) <= Tol

(***************************************************************************)
(* Properties of the frame loop.                                           *)
(***************************************************************************)
\* C7: a frame sweeps the image only if the camera pose actually changed in
\* that frame or Reload was clicked; a frame with the right mouse button held,
\* the cursor where it was and no key held does not sweep
C7_SweepOnlyIfPoseChanged ==
    (pc = "swap" /\ frame.completed > 0)
        => (Pose(camera) # frame.pose0 \/ frame.click)

\* C8: when a frame that called rotate or move, or had Reload clicked, reaches
\* the draw and swap, render_scene has run to completion in it: every sweep
\* started has returned, each wrote all ImageWidth * ImageHeight pixels, and
\* the texture holds the framebuffer; no frame sweeps part of the image
C8_FrameSweepsComplete ==
    pc = "swap"
        => /\ (frame.rotate \/ frame.move \/ frame.click) => frame.completed >= 1
           /\ frame.started = frame.completed
           /\ frame.written = frame.completed * ImageWidth * ImageHeight
           /\ frame.completed >= 1 => texture = framebuffer

\* a frame that rotated and had Reload clicked is about to swap after two
\* complete sweeps
C8_Witness ==
    /\ pc = "swap"
    /\ frame.rotate
    /\ frame.click
    /\ frame.completed = 2
    /\ frame.written = 2 * ImageWidth * ImageHeight

C12_ViewportWidth ==
    /\ Abs(camera.viewport_width_ * camera.image_height_
             - camera.viewport_height_ * camera.image_width_)
           <= camera.image_height_ * 2 * Ulp(camera.viewport_width_)
    /\ camera.image_width_ = constructed.image_width_
    /\ camera.image_height_ = constructed.image_height_
    /\ camera.focal_length_ = constructed.focal_length_
    /\ camera.viewport_height_ = 2 * SCALE
    /\ camera.world_up_ = vec3(0, SCALE, 0)
    /\ lastOp.op \in {"move", "rotate", "set_position", "get_ray"} =>
           /\ camera.image_width_ = prev.image_width_
           /\ camera.image_height_ = prev.image_height_
           /\ camera.focal_length_ = prev.focal_length_
           /\ camera.viewport_height_ = prev.viewport_height_
           /\ camera.viewport_width_ = prev.viewport_width_
           /\ camera.world_up_ = prev.world_up_

\* a camera whose aspect ratio is not a whole number, after a rotate
C12_Witness ==
    /\ lastOp.op = "rotate"
    /\ camera.image_width_ % camera.image_height_ # 0
    /\ camera.viewport_width_ > camera.viewport_height_
           * (camera.image_width_ \div camera.image_height_)
    /\ camera.yaw_ # -90

(***************************************************************************)
(* Properties of the shading functions.                                    *)
(***************************************************************************)
\* The rays of ShadeSpec have coordinates on the grid of quarter units, so the
\* quadratic of a ray can be computed exactly, in whole numbers of quarter
\* units: with o = origin - centre and d = direction,
\*   QA = |d|^2,  QB = 2 (o . d),  QC = |o|^2 - radius^2,  QD = QB^2 - 4 QA QC.
Quarter == SCALE \div 4

InQuarters(v) == <<v[1] \div Quarter, v[2] \div Quarter, v[3] \div Quarter>>

QO(r) == InQuarters(Minus(r.orig, SphereCenter))

QA(r) == Inner(InQuarters(r.dir), InQuarters(r.dir))

QB(r) == 2 * Inner(QO(r), InQuarters(r.dir))

QC(r) == Inner(QO(r), QO(r)) - (SphereRadius \div Quarter) * (SphereRadius \div Quarter)

QD(r) == QB(r) * QB(r) - 4 * QA(r) * QC(r)

\* 2 QA times the near root, in units of 1/SCALE, to the nearest unit
NearRootTimes2A(r) == 4 * (-Quarter * QB(r) - RoundSqrt(QD(r) * Quarter * Quarter))

\* hit_sphere has been applied to a ray
Hit == shade.step \in {"hit_sphere", "color", "bytes"} /\ shade.ray # NoRay

\* ray_color has been applied to a ray
Colored == shade.step \in {"color", "bytes"} /\ shade.ray # NoRay

\* the two branches of ray_color
HitColor(r, t) == NormalColor(unit_vector(VSub(at(r, t), SphereCenter)))

MissColor(r) == Blend(FMul(SCALE \div 2, FAdd(unit_vector(r.dir)[2], SCALE)))

\* C13: hit_sphere returns exactly -1 when the discriminant b^2 - 4ac is
\* negative and the near root (-b - sqrt(b^2 - 4ac)) / (2a) otherwise (to the
\* rounding of the square root and the division); ray_color returns the normal
\* colour if and only if that t is strictly positive, which is the case exactly
\* when the sphere is met ahead of an origin outside it: a near root that is 0
\* (origin on the sphere) or negative gives the sky gradient
C13_NearRootAndBranch ==
    /\ Hit =>
           /\ QD(shade.ray) < 0 => shade.t = -SCALE
           /\ QD(shade.ray) >= 0 =>
                  Abs(2 * QA(shade.ray) * shade.t - NearRootTimes2A(shade.ray))
                      <= 2 * QA(shade.ray) * Ulp(Abs(shade.t)) + 8
           /\ shade.t > 0 <=>
                  (QD(shade.ray) >= 0 /\ QB(shade.ray) < 0 /\ QC(shade.ray) > 0)
    /\ Colored =>
           /\ shade.t > 0 => shade.color = HitColor(shade.ray, shade.t)
           /\ shade.t <= 0 => shade.color = MissColor(shade.ray)

\* a ray that starts on the sphere and points through its centre: the near
\* root is 0 and the colour is the sky gradient, not the normal colour
C13_Witness ==
    /\ Colored
    /\ QC(shade.ray) = 0
    /\ QB(shade.ray) < 0
    /\ QD(shade.ray) > 0
    /\ shade.t = 0
    /\ shade.color = MissColor(shade.ray)
    /\ shade.color # HitColor(shade.ray, shade.t)

\* the far root of the quadratic of r, in units of 1/SCALE, to the nearest unit
FarRoot(r) ==
    RoundDiv(4 * (-Quarter * QB(r) + RoundSqrt(QD(r) * Quarter * Quarter)), 2 * QA(r))

\* C14: for a ray whose origin is strictly inside the sphere the discriminant
\* is positive, hit_sphere returns the near root, which is negative, although
\* the far root is positive; ray_color returns the sky gradient and not the
\* normal colour of the point at the far root
C14_InsideIsMiss ==
    /\ (Hit /\ QC(shade.ray) < 0) =>
           /\ QD(shade.ray) > 0
           /\ FarRoot(shade.ray) > 0
           /\ shade.t < 0
           /\ Abs(2 * QA(shade.ray) * shade.t - NearRootTimes2A(shade.ray))
                  <= 2 * QA(shade.ray) * Ulp(Abs(shade.t)) + 8
    /\ (Colored /\ QC(shade.ray) < 0) =>
           /\ shade.color = MissColor(shade.ray)
           /\ shade.color[3] = SCALE
           /\ shade.color # HitColor(shade.ray, FarRoot(shade.ray))

\* a ray from a point inside the sphere, off its centre, has been coloured
C14_Witness ==
    /\ Colored
    /\ QC(shade.ray) < 0
    /\ shade.ray.orig # SphereCenter
    /\ shade.t < 0
    /\ FarRoot(shade.ray) > 0
    /\ shade.color = MissColor(shade.ray)

\* Scenario A: the ray from the origin straight at the sphere
ScenarioA == ray(vec3(0, 0, 0), vec3(0, 0, -SCALE))

\* the outward unit normal at the point of r at parameter t
Normal(r, t) == unit_vector(VSub(at(r, t), SphereCenter))

\* C15: for the ray from (0,0,0) with direction (0,0,-1) hit_sphere returns
\* exactly 0.5 (a = 1, b = -2, c = 0.75, discriminant 1), the point at that
\* parameter is (0,0,-0.5) and the unit normal there is exactly (0,0,1)
C15_ScenarioA_Hit ==
    (Hit /\ shade.ray = ScenarioA) =>
        /\ QA(shade.ray) = 16 /\ QB(shade.ray) = -32 /\ QC(shade.ray) = 12
        /\ QD(shade.ray) = 256
        /\ shade.t = SCALE \div 2
        /\ at(shade.ray, shade.t) = vec3(0, 0, -(SCALE \div 2))
        /\ Normal(shade.ray, shade.t) = vec3(0, 0, SCALE)

\* hit_sphere has returned for the ray of Scenario A
C15_Witness ==
    /\ shade.step = "hit_sphere"
    /\ shade.ray = ScenarioA
    /\ shade.t = SCALE \div 2

\* the statement of C16 as given: the colour of Scenario A is (1,1,1)
C16_ScenarioA_White ==
    (Colored /\ shade.ray = ScenarioA) => shade.color = vec3(SCALE, SCALE, SCALE)

\* C16: the colour of Scenario A is 0.5 * (N + 1) for N = (0,0,1), that is
\* exactly (0.5, 0.5, 1.0); in general the colour of a hit is 0.5 * (N + 1)
\* component by component, so only a component of N equal to 1 gives 1
C16_ScenarioA_Color ==
    /\ (Colored /\ shade.ray = ScenarioA) =>
           /\ shade.t > 0
           /\ shade.color = vec3(SCALE \div 2, SCALE \div 2, SCALE)
    /\ (Colored /\ shade.t > 0) =>
           \A n \in 1..3 :
               /\ shade.color[n] =
                      FMul(SCALE \div 2, FAdd(Normal(shade.ray, shade.t)[n], SCALE))
               /\ shade.color[n] = SCALE => Normal(shade.ray, shade.t)[n] = SCALE

\* ray_color has returned (0.5, 0.5, 1.0) for the ray of Scenario A
C16_Witness ==
    /\ shade.step = "color"
    /\ shade.ray = ScenarioA
    /\ shade.color = vec3(SCALE \div 2, SCALE \div 2, SCALE)

\* Scenario B: the ray from the origin straight up
ScenarioB == ray(vec3(0, 0, 0), vec3(0, SCALE, 0))

\* the sky colour (0.5, 0.7, 1.0)
Sky == vec3(SCALE \div 2, (7 * SCALE) \div 10, SCALE)

\* the blend factor 0.5 * (unit_direction.y + 1) of r
BlendFactor(r) == FMul(SCALE \div 2, FAdd(unit_vector(r.dir)[2], SCALE))

\* C17: the ray from (0,0,0) with direction (0,1,0) has a negative
\* discriminant, hit_sphere returns -1 and ray_color returns exactly the sky
\* colour (0.5, 0.7, 1.0); every miss has the colour (1-a)*(1,1,1) +
\* a*(0.5,0.7,1.0) with a = 0.5 * (unit_direction.y + 1) in [0, 1], so each
\* channel lies between the sky's and white's and a = 0 gives white
C17_MissIsGradient ==
    /\ (Hit /\ shade.ray = ScenarioB) =>
           /\ QD(shade.ray) < 0
           /\ shade.t = -SCALE
    /\ (Colored /\ shade.ray = ScenarioB) =>
           /\ BlendFactor(shade.ray) = SCALE
           /\ shade.color = Sky
    /\ (Colored /\ shade.t <= 0) =>
           /\ BlendFactor(shade.ray) \in 0 .. SCALE
           /\ \A n \in 1..3 :
                  /\ Abs(SCALE * shade.color[n]
                           - ((SCALE - BlendFactor(shade.ray)) * SCALE
                                + BlendFactor(shade.ray) * Sky[n])) <= 2 * SCALE
                  /\ shade.color[n] \in Sky[n] - 1 .. SCALE
           /\ BlendFactor(shade.ray) = 0 => shade.color = vec3(SCALE, SCALE, SCALE)

\* ray_color has returned the sky colour for the ray of Scenario B
C17_Witness ==
    /\ shade.step = "color"
    /\ shade.ray = ScenarioB
    /\ shade.t = -SCALE
    /\ shade.color = Sky

\* get_ray(0, 0) has just returned for a camera still as constructed
ScenarioC ==
    /\ lastOp.op = "get_ray"
    /\ lastOp.a = 0
    /\ lastOp.b = 0
    /\ camera = constructed

Cell(col, row) == (row * ImageWidth + col) * 3

\* the three bytes of a colour
Bytes(pixel_color) ==
    <<channel(pixel_color[1]), channel(pixel_color[2]), channel(pixel_color[3])>>

\* the bytes of pixel (col, row) for the camera state c
PixelBytes(c, col, row) == Bytes(ray_color(get_ray(c, col, row)))

\* the byte offsets written by the sweep in progress
Written == {frame.cells[n] + k : n \in 1 .. Len(frame.cells), k \in 0 .. 2}

\* C19: during one execution of render_scene the n-th pixel visited is written
\* at byte offset 3 * (n - 1), which is (j * ImageWidth + i) * 3 for the pixel
\* (i, j) in row-major order; no offset is written twice, every offset lies
\* inside the buffer of ImageWidth * ImageHeight * 3 bytes, and when the sweep
\* returns every byte has been written exactly once; the bytes of the pixel
\* just written, and of every pixel when the sweep returns, are those of
\* ray_color(get_ray(i, j)) for the camera state, whatever was visited before
\* or after it
C19_SweepWritesEachCellOnce ==
    /\ DOMAIN framebuffer = 0 .. FramebufferSize - 1
    /\ pc = "render_scene" =>
           /\ Len(frame.cells) = j * ImageWidth + i
           /\ i \in 0 .. ImageWidth - 1
           /\ j \in 0 .. ImageHeight
           /\ j = ImageHeight => i = 0
           /\ \A n \in 1 .. Len(frame.cells) : frame.cells[n] = 3 * (n - 1)
           /\ Cardinality(Written) = 3 * Len(frame.cells)
           /\ Written \subseteq 0 .. FramebufferSize - 1
           /\ j = ImageHeight => Written = 0 .. FramebufferSize - 1
           /\ \A col \in 0 .. ImageWidth - 1, row \in 0 .. ImageHeight - 1 :
                  (\/ j = ImageHeight
                   \/ Cell(col, row) = 3 * (Len(frame.cells) - 1)) =>
                      \A k \in 0 .. 2 :
                          framebuffer[Cell(col, row) + k]
                              = PixelBytes(camera, col, row)[k + 1]
           /\ \A col \in 0 .. ImageWidth - 1, row \in 0 .. ImageHeight - 1 :
                  Cell(col, row) \in Written <=> (row < j \/ (row = j /\ col < i))

\* a second sweep, for a camera that has left its constructed pose, is about to
\* return with every pixel written and rows of different colours
C19_Witness ==
    /\ pc = "render_scene"
    /\ j = ImageHeight
    /\ frame.started >= 1
    /\ camera # constructed
    /\ Len(frame.cells) = ImageWidth * ImageHeight
    /\ Written = 0 .. FramebufferSize - 1
    /\ \E k \in 0 .. 2 : framebuffer[Cell(0, 0) + k] # framebuffer[Cell(0, ImageHeight - 1) + k]

\* 0.999 in units of 1/SCALE
Clamp999 == (999 * SCALE) \div 1000

\* floor(256 * min(0.999, max(0.0, v))) computed on the integers
Floor256(v) == (256 * Min(Clamp999, Max(0, v))) \div SCALE

\* C20: every stored byte is floor(256 * min(0.999, max(0.0, v))) of its
\* channel value v and lies in 0..255; a value of 1.0 or more is stored as 255,
\* a value of 0 or less as 0, and a larger value never gives a smaller byte
C20_ClampThenScale ==
    shade.step = "bytes" =>
        \A n \in 1..3 :
            /\ shade.bytes[n] \in 0 .. 255
            /\ shade.bytes[n] = Floor256(shade.color[n])
            /\ shade.color[n] >= SCALE => shade.bytes[n] = 255
            /\ shade.color[n] <= 0 => shade.bytes[n] = 0
            /\ \A m \in 1..3 :
                   shade.color[m] <= shade.color[n] => shade.bytes[m] <= shade.bytes[n]

\* a colour with a channel of exactly 1.0 and one of 0.5 has been stored as
\* 255 and 128
C20_Witness ==
    /\ shade.step = "bytes"
    /\ shade.color[1] = SCALE
    /\ shade.bytes[1] = 255
    /\ shade.color[2] = SCALE \div 2
    /\ shade.bytes[2] = 128

\* a step taken while render_scene executes leaves the camera alone, starts no
\* sweep, and is the next pixel or, after the last pixel, the return
SweepStep ==
    pc = "render_scene" =>
        /\ camera' = camera
        /\ frame'.started = frame.started
        /\ \/ /\ pc' = "render_scene"
              /\ j < ImageHeight
              /\ Len(frame'.cells) = Len(frame.cells) + 1
           \/ /\ pc' = ret
              /\ j = ImageHeight
              /\ Len(frame.cells) = ImageWidth * ImageHeight
              /\ frame'.completed = frame.completed + 1

\* the camera changes only in the mouse and keyboard handling
MutatorSite == camera' # camera => pc \in {"frame", "keyboard"}

\* C21: while render_scene executes the camera is not changed (rotate and move
\* are called only from the mouse and keyboard handling of the loop), the only
\* steps are the pixels of the sweep in order and its return after the last
\* pixel, and no further sweep is started; a sweep in progress always returns
\* with as many sweeps completed as started
C21_SweepSerialized ==
    /\ [][SweepStep /\ MutatorSite]_vars
    /\ (pc = "render_scene")
           ~> (pc # "render_scene" /\ frame.completed = frame.started)

\* a sweep started after the camera was turned in this frame is between two
\* pixels
C21_Witness ==
    /\ pc = "render_scene"
    /\ frame.rotate
    /\ camera # constructed
    /\ Len(frame.cells) > 0
    /\ Len(frame.cells) < ImageWidth * ImageHeight

\* the fields no mutator changes
Fixed(c) == <<c.image_width_, c.image_height_, c.focal_length_,
              c.viewport_height_, c.world_up_>>

\* C22: rotate(delta_yaw, delta_pitch) sets yaw to yaw + delta_yaw, neither
\* clamped nor wrapped into a canonical range, so that after any sequence of
\* rotate calls yaw is -90 plus the sum of the delta_yaw; position, image
\* size, focal_length, viewport_height and world_up are as before the call
C22_YawAccumulates ==
    /\ camera.yaw_ = -90 + yawSum
    /\ Fixed(camera) = Fixed(constructed)
    /\ lastOp.op = "rotate" =>
           /\ camera.yaw_ = prev.yaw_ + lastOp.a
           /\ camera.camera_center_ = prev.camera_center_
           /\ Fixed(camera) = Fixed(prev)

\* rotate has taken the yaw from inside [-180, 180) to more than a full circle
\* away from its first value
C22_Witness ==
    /\ lastOp.op = "rotate"
    /\ prev.yaw_ \in -180 .. 179
    /\ camera.yaw_ < -360
    /\ camera.yaw_ = -90 + yawSum
    /\ camera.pitch_ # 0

\* move has just returned for a camera whose derived state was consistent
Moved == lastOp.op = "move" /\ Consistent(prev)

\* the magnitudes met while move(v) and the recomputation add v to the
\* position and rebuild the viewport around it
MoveMag == MaxAbs(prev.camera_center_) + MaxAbs(lastOp.v) + MaxAbs(prev.pixel00_loc_)
               + MaxAbs(prev.viewport_upper_left_)

\* the statement of C23 as given: position, viewport_upper_left and
\* pixel00_location change by exactly the offset and every ray direction is
\* exactly what it was
C23_MoveShiftsExactly ==
    Moved =>
        /\ camera.camera_center_ = Plus(prev.camera_center_, lastOp.v)
        /\ Minus(camera.pixel00_loc_, prev.pixel00_loc_) = lastOp.v
        /\ Minus(camera.viewport_upper_left_, prev.viewport_upper_left_) = lastOp.v
        /\ \A x \in PixelXs, y \in PixelYs :
               get_ray(camera, x, y).dir = get_ray(prev, x, y).dir

\* C23: move(offset) on a consistent camera leaves yaw, pitch, forward, right,
\* up, viewport_width, the viewport edges and the pixel deltas exactly as they
\* were; the position becomes position + offset rounded, pixel00_location and
\* viewport_upper_left change by the offset within two units in the last
\* place, and for every pixel the ray origin is the new position while the
\* direction is the one before the move within the same tolerance (exactly so
\* when position + offset is representable)
C23_MoveShifts ==
    Moved =>
        /\ camera.yaw_ = prev.yaw_
        /\ camera.pitch_ = prev.pitch_
        /\ \A g \in OrientationFields : camera[g] = prev[g]
        /\ Near(camera.camera_center_, Plus(prev.camera_center_, lastOp.v),
                Ulp(MoveMag))
        /\ Near(Minus(camera.pixel00_loc_, prev.pixel00_loc_), lastOp.v,
                2 * Ulp(MoveMag))
        /\ Near(Minus(camera.viewport_upper_left_, prev.viewport_upper_left_),
                lastOp.v, 2 * Ulp(MoveMag))
        /\ \A x \in PixelXs, y \in PixelYs :
               /\ get_ray(camera, x, y).orig = camera.camera_center_
               /\ Near(get_ray(camera, x, y).dir, get_ray(prev, x, y).dir,
                       2 * Ulp(MoveMag + Mag(prev, x, y)))
               /\ camera.camera_center_ = Plus(prev.camera_center_, lastOp.v)
                      => Near(get_ray(camera, x, y).dir, get_ray(prev, x, y).dir,
                              2 * Ulp(MoveMag))

\* a move of a consistent, turned camera whose new position had to be rounded
C23_Witness ==
    /\ Moved
    /\ camera.yaw_ # -90
    /\ camera.camera_center_ # Plus(prev.camera_center_, lastOp.v)
    /\ camera.pixel00_loc_ # prev.pixel00_loc_
    /\ get_ray(camera, 0, 0).orig = camera.camera_center_

\* set_position(P2) has just returned for a consistent camera that was at
\* another position P1
Repositioned ==
    /\ lastOp.op = "set_position"
    /\ Consistent(prev)
    /\ lastOp.v # prev.camera_center_

\* the camera at the position of c with the yaw and pitch of c and its
\* viewport built around that position
Rebuilt(c) == update_camera_vectors(c)

\* the magnitudes met by get_ray(x, y) on the camera and on the rebuilt one
StaleMag(x, y) == Mag(camera, x, y) + Mag(Rebuilt(camera), x, y)

C24_Repaired ==
    /\ lastOp.op \in {"move", "rotate"}
    /\ ~Consistent(prev)
    /\ Consistent(camera)

\* the framebuffer a full sweep over the camera state c gives
Swept(c) ==
    [k \in 0 .. FramebufferSize - 1 |->
        PixelBytes(c, (k \div 3) % ImageWidth, (k \div 3) \div ImageWidth)[(k % 3) + 1]]

\* C25: whenever the loop is about to draw and swap, in the first frame as in
\* every other, the framebuffer is the full sweep over the current camera
\* state and the texture drawn holds it: no frame shows an image older than
\* the pose
C25_FramebufferCurrent ==
    pc = "swap" =>
        /\ framebuffer = Swept(camera)
        /\ texture = framebuffer

\* a frame that moved the camera without turning it is about to swap, the
\* framebuffer being another one than that of the constructed camera
C25_Witness ==
    /\ pc = "swap"
    /\ frame.move
    /\ ~frame.rotate
    /\ ~frame.click
    /\ camera.camera_center_ # constructed.camera_center_
    /\ framebuffer = Swept(camera)
    /\ framebuffer # Swept(constructed)

\* the step of the loop that handles the mouse
MouseStep == pc = "frame" /\ pc' = "keyboard"

\* the turn the mouse look makes for the cursor going from (lastMouseX,
\* lastMouseY) to (lastMouseX', lastMouseY')
LookYaw == Degrees(FMul(Real(lastMouseX' - lastMouseX), sensitivity))

LookPitch ==
    Degrees(FMul(Real(IF invertY THEN lastMouseY' - lastMouseY
                                 ELSE -(lastMouseY' - lastMouseY)), sensitivity))

\* the frame on which the button goes down: the cursor is recorded and
\* disabled, the camera is not turned
PressFrame ==
    (~rightMousePressed /\ rightMousePressed') =>
        /\ <<lastMouseX', lastMouseY'>> \in Cursors
        /\ cursor' = "disabled"
        /\ camera' = camera
        /\ ~camera_updated'
        /\ ~frame'.rotate

\* a later frame with the button still down: the camera is turned by the
\* offset of the cursor since the frame before
HeldFrame ==
    (rightMousePressed /\ rightMousePressed') =>
        /\ <<lastMouseX', lastMouseY'>> \in Cursors
        /\ camera' = rotate(camera, LookYaw, LookPitch)
        /\ camera_updated'
        /\ frame'.rotate
        /\ cursor' = cursor

\* a frame with the button up: the cursor is normal again, nothing is turned
ReleasedFrame ==
    ~rightMousePressed' =>
        /\ rightMousePressed => cursor' = "normal"
        /\ ~rightMousePressed => cursor' = cursor
        /\ camera' = camera
        /\ ~camera_updated'
        /\ ~frame'.rotate
        /\ <<lastMouseX', lastMouseY'>> = <<lastMouseX, lastMouseY>>

\* C26: on the frame where the right button goes from released to pressed the
\* cursor position is recorded and the cursor disabled, rotate is not called
\* and camera_updated is false; on each later frame with the button held
\* rotate is called with the cursor offset since the previous frame times
\* sensitivity, the vertical sign chosen by invertY; on the frame the button
\* is found released the cursor is made normal; the cursor is disabled exactly
\* while rightMousePressed is true
C26_MouseLookProtocol ==
    /\ [](cursor = "disabled" <=> rightMousePressed)
    /\ [][MouseStep => (PressFrame /\ HeldFrame /\ ReleasedFrame)]_vars
    /\ [][rightMousePressed' # rightMousePressed => MouseStep]_vars

\* the second frame with the button held has turned the camera by the cursor
\* offset (-225, 300) times 0.2: 45 degrees to the left and 60 up
C26_Witness ==
    /\ pc = "keyboard"
    /\ rightMousePressed
    /\ cursor = "disabled"
    /\ frame.rotate
    /\ camera_updated
    /\ <<lastMouseX, lastMouseY>> = <<-225, 300>>
    /\ camera.yaw_ = -135
    /\ camera.pitch_ = 60

====
